---- MODULE Spec2Model ----
(***************************************************************************)
(* Model of clonos-convert-profiles (src/src/main.rs): the shell-config    *)
(* parser, the key-spec parser, the human-readable size converter, the     *)
(* PHP escaper and the main pipeline that aggregates profiles per engine   *)
(* and writes the PHP artifact.                                            *)
(*                                                                         *)
(* A Rust String is a sequence of one-character strings; a decimal number  *)
(* wider than TLC's integers is a sequence of digits 0..9, most            *)
(* significant first.                                                      *)
(***************************************************************************)
EXTENDS Integers, Sequences, FiniteSets, TLC

VARIABLES
    overflow_checks,  \* build profile: TRUE = overflow panics, FALSE = wraps
    tok, tok_out, hpc,            \* human_to_bytes call: argument, result, position
    esc_in, esc_out, epc,         \* php_escape call: argument, result, position
    p_file, p_idx, current_line, map, ppc,  \* parse_shell_config: file, next line, buffer, result map, position
    args, env,                    \* main's inputs: argv, environment variables
    pc,                           \* main's position
    output_path, engines, key_specs, limits,   \* main's locals
    paths, pidx,                  \* the profile paths and the next one to process
    ewritten,                     \* engines written so far
    out_created, out,             \* the output file: created?, its writes
    stderr                        \* diagnostics written so far

fnvars == <<tok, tok_out, hpc, esc_in, esc_out, epc>>
parsevars == <<p_file, p_idx, current_line, map, ppc>>
mainvars == <<args, env, pc, output_path, engines, key_specs, limits,
              paths, pidx, ewritten, out_created, out, stderr>>

vars == <<overflow_checks, fnvars, parsevars, mainvars>>

(***************************************************************************)
(* Bounds of the model.                                                    *)
(***************************************************************************)
MaxTokLen == 3
MaxEscLen == 4
MaxLines == 3
MaxEngines == 2
MaxFiles == 2
MaxSpecs == 2

(***************************************************************************)
(* Characters and strings.                                                 *)
(***************************************************************************)
BSL == "\\"
DQ == "\""
SQ == "'"
\* U+212A KELVIN SIGN: not ASCII, and char::to_lowercase maps it to 'k'
KELVIN == "KELVIN"

WhiteSpace == {" ", "\t"}

Digits == {"0", "1", "2", "3", "4", "5", "6", "7", "8", "9"}

is_ascii_digit(c) == c \in Digits

DigitVal(c) ==
    CASE c = "0" -> 0 [] c = "1" -> 1 [] c = "2" -> 2 [] c = "3" -> 3
      [] c = "4" -> 4 [] c = "5" -> 5 [] c = "6" -> 6 [] c = "7" -> 7
      [] c = "8" -> 8 [] c = "9" -> 9

DigitChar(d) ==
    CASE d = 0 -> "0" [] d = 1 -> "1" [] d = 2 -> "2" [] d = 3 -> "3"
      [] d = 4 -> "4" [] d = 5 -> "5" [] d = 6 -> "6" [] d = 7 -> "7"
      [] d = 8 -> "8" [] d = 9 -> "9"

\* u8::to_ascii_lowercase on the letters the model uses (eq_ignore_ascii_case)
to_ascii_lowercase(c) ==
    CASE c = "B" -> "b" [] c = "Y" -> "y" [] c = "T" -> "t" [] c = "E" -> "e"
      [] c = "S" -> "s" [] c = "K" -> "k" [] c = "M" -> "m" [] c = "G" -> "g"
      [] OTHER -> c

\* char::to_lowercase: Unicode lowercase, so the Kelvin sign becomes 'k' too
to_lowercase(c) == IF c = KELVIN THEN "k" ELSE to_ascii_lowercase(c)

\* str::to_lowercase, char by char
str_to_lowercase(s) == [i \in 1..Len(s) |-> to_lowercase(s[i])]

\* str::to_ascii_lowercase
str_to_ascii_lowercase(s) == [i \in 1..Len(s) |-> to_ascii_lowercase(s[i])]

\* the digits of a string of ASCII digits, and back
DigitsOf(s) == [i \in 1..Len(s) |-> DigitVal(s[i])]
CharsOf(ds) == [i \in 1..Len(ds) |-> DigitChar(ds[i])]

RECURSIVE trim_start(_)
trim_start(s) ==
    IF s = <<>> THEN s
    ELSE IF Head(s) \in WhiteSpace THEN trim_start(Tail(s)) ELSE s

RECURSIVE trim_end(_)
trim_end(s) ==
    IF s = <<>> THEN s
    ELSE IF s[Len(s)] \in WhiteSpace THEN trim_end(SubSeq(s, 1, Len(s) - 1)) ELSE s

trim(s) == trim_end(trim_start(s))

starts_with(s, c) == s # <<>> /\ s[1] = c
ends_with(s, c) == s # <<>> /\ s[Len(s)] = c

\* str::find(char): index of the first occurrence, 0 for None
find(s, c) ==
    IF \E i \in 1..Len(s) : s[i] = c
    THEN CHOOSE i \in 1..Len(s) : s[i] = c /\ \A j \in 1..(i - 1) : s[j] # c
    ELSE 0

\* str::replace(char, &str): every occurrence of c replaced by r, left to right
RECURSIVE replace(_, _, _)
replace(s, c, r) ==
    IF s = <<>> THEN <<>>
    ELSE (IF Head(s) = c THEN r ELSE <<Head(s)>>) \o replace(Tail(s), c, r)

\* str::split(char): the pieces between separators, empty pieces kept
RECURSIVE split(_, _)
split(s, c) ==
    LET p == find(s, c)
    IN  IF p = 0 THEN <<s>>
        ELSE <<SubSeq(s, 1, p - 1)>> \o split(SubSeq(s, p + 1, Len(s)), c)

\* str::split_whitespace: the maximal runs of non-whitespace characters
RECURSIVE split_whitespace(_)
split_whitespace(s) ==
    LET t == trim_start(s)
    IN  IF t = <<>> THEN <<>>
        ELSE LET ws == {i \in 1..Len(t) : t[i] \in WhiteSpace}
                 e == IF ws = {} THEN Len(t) + 1
                      ELSE CHOOSE i \in ws : \A j \in ws : i <= j
             IN  <<SubSeq(t, 1, e - 1)>> \o split_whitespace(SubSeq(t, e, Len(t)))

\* Ord for String: byte-wise lexicographic; Code gives the order of the bytes
Code(c) ==
    CASE c = "\t" -> 9 [] c = " " -> 32 [] c = DQ -> 34 [] c = "#" -> 35
      [] c = SQ -> 39 [] c = ":" -> 58 [] c = "=" -> 61 [] c = BSL -> 92
      [] c = "_" -> 95
      [] c \in Digits -> 48 + DigitVal(c)
      [] c = "B" -> 66 [] c = "E" -> 69 [] c = "G" -> 71 [] c = "K" -> 75
      [] c = "M" -> 77 [] c = "S" -> 83 [] c = "T" -> 84 [] c = "Y" -> 89
      [] c = "a" -> 97 [] c = "b" -> 98 [] c = "c" -> 99 [] c = "e" -> 101
      [] c = "g" -> 103 [] c = "h" -> 104 [] c = "i" -> 105 [] c = "k" -> 107
      [] c = "m" -> 109 [] c = "n" -> 110 [] c = "q" -> 113 [] c = "s" -> 115
      [] c = "t" -> 116 [] c = "u" -> 117 [] c = "v" -> 118 [] c = "x" -> 120
      [] c = "y" -> 121
      [] c = KELVIN -> 226

RECURSIVE cmp_less(_, _)
cmp_less(a, b) ==
    IF b = <<>> THEN FALSE
    ELSE IF a = <<>> THEN TRUE
    ELSE IF Code(Head(a)) # Code(Head(b)) THEN Code(Head(a)) < Code(Head(b))
    ELSE cmp_less(Tail(a), Tail(b))

(***************************************************************************)
(* php_escape (main.rs 87-89).                                             *)
(***************************************************************************)
\* the two replacements in the other order: the backslash added for a quote is
\* escaped again
php_escape_quote_first(value) ==
    replace(replace(value, DQ, <<BSL, DQ>>), BSL, <<BSL, BSL>>)

php_escape(value) ==
    replace(replace(value, BSL, <<BSL, BSL>>), DQ, <<BSL, DQ>>)

(***************************************************************************)
(* Decimal arithmetic on digit sequences, for u64 values.                  *)
(***************************************************************************)
U64Max == <<1,8,4,4,6,7,4,4,0,7,3,7,0,9,5,5,1,6,1,5>>

RECURSIVE StripZeros(_)
StripZeros(ds) ==
    IF Len(ds) > 1 /\ Head(ds) = 0 THEN StripZeros(Tail(ds)) ELSE ds

RECURSIVE LexLeq(_, _)
LexLeq(a, b) ==
    IF a = <<>> THEN TRUE
    ELSE IF Head(a) # Head(b) THEN Head(a) < Head(b)
    ELSE LexLeq(Tail(a), Tail(b))

\* a <= b for digit sequences without leading zeros
NumLeq(a, b) == Len(a) < Len(b) \/ (Len(a) = Len(b) /\ LexLeq(a, b))

RECURSIVE CarryDigits(_)
CarryDigits(c) == IF c = 0 THEN <<>> ELSE Append(CarryDigits(c \div 10), c % 10)

RECURSIVE MulCarry(_, _, _)
MulCarry(ds, m, c) ==
    IF ds = <<>> THEN CarryDigits(c)
    ELSE LET v == ds[Len(ds)] * m + c
         IN  Append(MulCarry(SubSeq(ds, 1, Len(ds) - 1), m, v \div 10), v % 10)

\* ds * m + a, for small m and a
MulAdd(ds, m, a) == StripZeros(LET r == MulCarry(ds, m, a) IN IF r = <<>> THEN <<0>> ELSE r)

RECURSIVE DivRem(_, _, _)
\* long division of ds by small m, carrying remainder r in: <<quotient digits, remainder>>
DivRem(ds, m, r) ==
    IF ds = <<>> THEN <<<<>>, r>>
    ELSE LET v == r * 10 + Head(ds)
             rest == DivRem(Tail(ds), m, v % m)
         IN  <<<<v \div m>> \o rest[1], rest[2]>>

DivSmall(ds, m) == StripZeros(DivRem(ds, m, 0)[1])
ModSmall(ds, m) == DivRem(ds, m, 0)[2]

\* ds mod 2^64, in four 16-bit limbs
Wrap64(ds) ==
    LET q1 == DivSmall(ds, 65536)
        q2 == DivSmall(q1, 65536)
        q3 == DivSmall(q2, 65536)
        l0 == ModSmall(ds, 65536)
        l1 == ModSmall(q1, 65536)
        l2 == ModSmall(q2, 65536)
        l3 == ModSmall(q3, 65536)
    IN  MulAdd(MulAdd(MulAdd(MulAdd(<<0>>, 65536, l3), 65536, l2), 65536, l1), 65536, l0)

\* str::parse::<u64> of a run of ASCII digits: Err on empty or on a value above u64::MAX
parse_u64(num_str) ==
    IF num_str = <<>> THEN [ok |-> FALSE, n |-> <<0>>]
    ELSE LET n == StripZeros(DigitsOf(num_str))
         IN  IF NumLeq(n, U64Max) THEN [ok |-> TRUE, n |-> n]
             ELSE [ok |-> FALSE, n |-> <<0>>]

\* u64::to_string
u64_to_string(n) == CharsOf(n)

(***************************************************************************)
(* is_plain_number, human_to_bytes (main.rs 117-159).                      *)
(***************************************************************************)
is_plain_number(s0) ==
    LET s == trim(s0)
    IN  s # <<>> /\ \A i \in 1..Len(s) : is_ascii_digit(s[i])

\* the while loop of lines 139-143: the length of the leading run of digits
RECURSIVE DigitRun(_)
DigitRun(s) ==
    IF s # <<>> /\ is_ascii_digit(Head(s)) THEN 1 + DigitRun(Tail(s)) ELSE 0

Ret(s) == [panic |-> FALSE, val |-> s]
Panicked == [panic |-> TRUE, val |-> <<>>]

\* the factor as the number of multiplications by 1024; 0 for the `_` arm
FactorExp(suffix) ==
    IF suffix = <<"k">> THEN 1
    ELSE IF suffix = <<"m">> THEN 2
    ELSE IF suffix = <<"g">> THEN 3
    ELSE IF suffix = <<"t">> THEN 4
    ELSE 0

RECURSIVE Times1024(_, _)
Times1024(n, e) == IF e = 0 THEN n ELSE Times1024(MulAdd(n, 1024, 0), e - 1)

\* num * factor in u64: checked builds panic on overflow, unchecked builds wrap
MulU64(num, e, checks) ==
    LET p == Times1024(num, e)
    IN  IF NumLeq(p, U64Max) THEN Ret(u64_to_string(p))
        ELSE IF checks THEN Panicked
        ELSE Ret(u64_to_string(Wrap64(p)))

\* human_to_bytes with the suffix compared as written, not lowercased
human_to_bytes_case_sensitive(s0, checks) ==
    LET s == trim(s0)
    IN  IF s = <<>> THEN Ret(s)
        ELSE IF is_plain_number(s) THEN Ret(s)
        ELSE LET k == DigitRun(s)
                 num == parse_u64(SubSeq(s, 1, k))
                 suffix == SubSeq(s, k + 1, Len(s))
             IN  IF ~num.ok THEN Ret(s)
                 ELSE IF FactorExp(suffix) = 0 THEN Ret(s)
                 ELSE MulU64(num.n, FactorExp(suffix), checks)

human_to_bytes(s0, checks) ==
    LET s == trim(s0)
    IN  IF s = <<>> THEN Ret(s)
        ELSE IF is_plain_number(s) THEN Ret(s)
        ELSE LET k == DigitRun(s)
                 num == parse_u64(SubSeq(s, 1, k))
                 suffix == str_to_lowercase(SubSeq(s, k + 1, Len(s)))
             IN  IF ~num.ok THEN Ret(s)
                 ELSE IF FactorExp(suffix) = 0 THEN Ret(s)
                 ELSE MulU64(num.n, FactorExp(suffix), checks)

(***************************************************************************)
(* parse_shell_config (main.rs 7-55).                                      *)
(*                                                                         *)
(* A file is [open, lines]: open = FALSE when File::open fails; a line is  *)
(* [err, text]: err = TRUE when reading it fails (`line?`).                *)
(***************************************************************************)
EmptyMap == [k \in {} |-> <<>>]

\* HashMap::insert
insert(m, key, value) ==
    [k \in DOMAIN m \cup {key} |-> IF k = key THEN value ELSE m[k]]

Line(text) == [err |-> FALSE, text |-> text]
BadLine == [err |-> TRUE, text |-> <<>>]

\* lines 42-43: the quote test as the code writes it
QuoteTest(value) ==
    \/ (starts_with(value, DQ) /\ ends_with(value, DQ))
    \/ (starts_with(value, SQ) /\ ends_with(value, SQ))

\* lines 37-51: one completed logical line; value.pop() then value.remove(0),
\* and String::remove panics when the string is already empty
ParseLogical(full, m) ==
    LET pos == find(full, "=")
        key == trim(SubSeq(full, 1, pos - 1))
        value == trim(SubSeq(full, pos + 1, Len(full)))
    IN  IF pos = 0 THEN [panic |-> FALSE, current_line |-> <<>>, map |-> m]
        ELSE IF QuoteTest(value)
        THEN IF Len(value) = 1
             THEN [panic |-> TRUE, current_line |-> full, map |-> m]
             ELSE [panic |-> FALSE, current_line |-> <<>>,
                   map |-> insert(m, key, SubSeq(value, 2, Len(value) - 1))]
        ELSE [panic |-> FALSE, current_line |-> <<>>, map |-> insert(m, key, value)]

\* lines 15-51: the loop body on one physical line
LineStep(cur, m, l) ==
    LET trimmed == trim(l)
    IN  IF trimmed = <<>> THEN [panic |-> FALSE, current_line |-> cur, map |-> m]
        ELSE IF starts_with(trimmed, "#")
        THEN [panic |-> FALSE, current_line |-> cur, map |-> m]
        ELSE IF ends_with(trimmed, BSL)
        THEN [panic |-> FALSE,
              current_line |-> cur \o trim(SubSeq(trimmed, 1, Len(trimmed) - 1)),
              map |-> m]
        ELSE ParseLogical(cur \o trimmed, m)

RECURSIVE ParseFrom(_, _, _, _)
ParseFrom(lines, i, cur, m) ==
    IF i > Len(lines) THEN [tag |-> "ok", map |-> m]
    ELSE IF lines[i].err THEN [tag |-> "err", map |-> EmptyMap]
    ELSE LET r == LineStep(cur, m, lines[i].text)
         IN  IF r.panic THEN [tag |-> "panic", map |-> EmptyMap]
             ELSE ParseFrom(lines, i + 1, r.current_line, r.map)

\* the whole call, as main uses it
parse_shell_config(file) ==
    IF ~file.open THEN [tag |-> "err", map |-> EmptyMap]
    ELSE ParseFrom(file.lines, 1, <<>>, EmptyMap)

(***************************************************************************)
(* parse_key_spec (main.rs 99-115) and the engine registry (main.rs 66-85).*)
(***************************************************************************)
S_bytes == <<"b", "y", "t", "e", "s">>

eq_ignore_ascii_case(a, b) ==
    str_to_ascii_lowercase(a) = str_to_ascii_lowercase(b)

parse_key_spec(s0) ==
    LET s == trim(s0)
        p == find(s, ":")
    IN  IF p # 0
        THEN [name |-> trim(SubSeq(s, 1, p - 1)),
              convert_to_bytes |->
                  eq_ignore_ascii_case(trim(SubSeq(s, p + 1, Len(s))), S_bytes)]
        ELSE [name |-> s, convert_to_bytes |-> FALSE]

S_bhyve == <<"b", "h", "y", "v", "e">>
S_xen == <<"x", "e", "n">>
S_qemu == <<"q", "e", "m", "u">>
S_vbox == <<"v", "b", "o", "x">>
S_active == <<"_", "a", "c", "t", "i", "v", "e">>

Desc_bhyve ==
    <<"N","a","t","i","v","e"," ","F","r","e","e","B","S","D"," ",
      "h","y","p","e","r","v","i","s","o","r">>
Desc_xen ==
    <<"X","E","N"," ","t","y","p","e","-","1"," ",
      "h","y","p","e","r","v","i","s","o","r">>
Desc_qemu ==
    <<"Q","E","M","U"," ","h","y","p","e","r","v","i","s","o","r">>

\* the registry without its "xen" arm
get_engine_metadata_no_xen(id) ==
    IF id = S_bhyve
    THEN [some |-> TRUE, name |-> S_bhyve, description |-> Desc_bhyve, prefix |-> <<"b">>]
    ELSE IF id = S_qemu
    THEN [some |-> TRUE, name |-> S_qemu, description |-> Desc_qemu, prefix |-> <<"q">>]
    ELSE [some |-> FALSE, name |-> <<>>, description |-> <<>>, prefix |-> <<>>]

\* Option<(name, description, prefix)>
get_engine_metadata(id) ==
    IF id = S_bhyve
    THEN [some |-> TRUE, name |-> S_bhyve, description |-> Desc_bhyve, prefix |-> <<"b">>]
    ELSE IF id = S_xen
    THEN [some |-> TRUE, name |-> S_xen, description |-> Desc_xen, prefix |-> <<"x">>]
    ELSE IF id = S_qemu
    THEN [some |-> TRUE, name |-> S_qemu, description |-> Desc_qemu, prefix |-> <<"q">>]
    ELSE [some |-> FALSE, name |-> <<>>, description |-> <<>>, prefix |-> <<>>]

(***************************************************************************)
(* main (main.rs 161-499), by stage.                                       *)
(***************************************************************************)
Some(v) == [some |-> TRUE, v |-> v]
None == [some |-> FALSE, v |-> <<>>]

A_c == <<"-", "c">>
A_o == <<"-", "o">>

\* lines 173-199: the argument loop; fail = an exit(1) inside the loop
RECURSIVE ArgLoop(_, _, _, _)
ArgLoop(a, i, cap, outp) ==
    IF i > Len(a) THEN [fail |-> FALSE, capabilities |-> cap, output_path |-> outp]
    ELSE IF a[i] = A_c
    THEN IF i + 1 <= Len(a) THEN ArgLoop(a, i + 2, Some(a[i + 1]), outp)
         ELSE [fail |-> TRUE, capabilities |-> cap, output_path |-> outp]
    ELSE IF a[i] = A_o
    THEN IF i + 1 <= Len(a) THEN ArgLoop(a, i + 2, cap, Some(a[i + 1]))
         ELSE [fail |-> TRUE, capabilities |-> cap, output_path |-> outp]
    ELSE [fail |-> TRUE, capabilities |-> cap, output_path |-> outp]

\* lines 230-246: the registry in the order supplied, unknown ids skipped
RECURSIVE BuildEngines(_)
BuildEngines(ids) ==
    IF ids = <<>> THEN <<>>
    ELSE LET m == get_engine_metadata(Head(ids))
         IN  (IF m.some
              THEN <<[id |-> Head(ids), name |-> m.name, description |-> m.description,
                      prefix |-> m.prefix, profiles |-> <<>>]>>
              ELSE <<>>) \o BuildEngines(Tail(ids))

\* lines 242-244: one warning per unknown id
RECURSIVE EngineWarnings(_)
EngineWarnings(ids) ==
    IF ids = <<>> THEN <<>>
    ELSE (IF get_engine_metadata(Head(ids)).some THEN <<>>
          ELSE <<[msg |-> "unknown_engine", arg |-> Head(ids)]>>)
         \o EngineWarnings(Tail(ids))

\* lines 262-266: split(','), parse_key_spec, filter on a non-empty name
RECURSIVE FilterNamed(_)
FilterNamed(ks) ==
    IF ks = <<>> THEN <<>>
    ELSE (IF Head(ks).name # <<>> THEN <<Head(ks)>> ELSE <<>>) \o FilterNamed(Tail(ks))

KeySpecsOf(keys_env) ==
    LET parts == split(keys_env, ",")
    IN  FilterNamed([i \in 1..Len(parts) |-> parse_key_spec(parts[i])])

\* the activation test taking any value but "0" for active
IsActive_not_zero(engine_id, config) ==
    LET active_key == engine_id \o S_active
    IN  active_key \in DOMAIN config /\ config[active_key] # <<"0">>

\* lines 308-313: the activation test of one engine on one parsed file
IsActive(engine_id, config) ==
    LET active_key == engine_id \o S_active
    IN  active_key \in DOMAIN config /\ config[active_key] = <<"1">>

\* lines 306-315: the Ok arm, over all engines
Distribute(engs, config) ==
    [i \in 1..Len(engs) |->
        IF IsActive(engs[i].id, config)
        THEN [engs[i] EXCEPT !.profiles = Append(@, config)]
        ELSE engs[i]]

(***************************************************************************)
(* The emitter (main.rs 338-494). Every write!/writeln! is one record      *)
(* [k, a, b, comma]: k names the format string, a and b are its            *)
(* interpolated strings, comma tells whether the format string ends in a   *)
(* comma.                                                                  *)
(***************************************************************************)
W(k, a, b, comma) == [k |-> k, a |-> a, b |-> b, comma |-> comma]

RECURSIVE NatToString(_)
\* usize Display
NatToString(n) ==
    IF n < 10 THEN <<DigitChar(n)>>
    ELSE Append(NatToString(n \div 10), DigitChar(n % 10))

\* the collection keeping one entry per name
RECURSIVE profile_params_dedup(_, _, _)
profile_params_dedup(profile, specs, checks) ==
    IF specs = <<>> THEN [panic |-> FALSE, params |-> <<>>]
    ELSE LET spec == Head(specs)
             rest == profile_params_dedup(profile, Tail(specs), checks)
             seen == \E i \in 1..Len(rest.params) : rest.params[i].key = spec.name
         IN  IF spec.name \in DOMAIN profile /\ ~seen
             THEN LET out_value == IF spec.convert_to_bytes
                                   THEN human_to_bytes(profile[spec.name], checks)
                                   ELSE Ret(profile[spec.name])
                  IN  IF out_value.panic THEN [panic |-> TRUE, params |-> <<>>]
                      ELSE [panic |-> rest.panic,
                            params |-> <<[key |-> spec.name, value |-> out_value.val]>>
                                       \o rest.params]
             ELSE rest

\* lines 431-441: one (name, value) per KeySpec whose name the profile holds
RECURSIVE profile_params(_, _, _)
profile_params(profile, specs, checks) ==
    IF specs = <<>> THEN [panic |-> FALSE, params |-> <<>>]
    ELSE LET spec == Head(specs)
             rest == profile_params(profile, Tail(specs), checks)
         IN  IF spec.name \in DOMAIN profile
             THEN LET out_value == IF spec.convert_to_bytes
                                   THEN human_to_bytes(profile[spec.name], checks)
                                   ELSE Ret(profile[spec.name])
                  IN  IF out_value.panic THEN [panic |-> TRUE, params |-> <<>>]
                      ELSE [panic |-> rest.panic,
                            params |-> <<[key |-> spec.name, value |-> out_value.val]>>
                                       \o rest.params]
             ELSE rest

RECURSIVE SortedInsert(_, _)
SortedInsert(sorted, x) ==
    IF sorted = <<>> THEN <<x>>
    ELSE IF cmp_less(x.key, Head(sorted).key) THEN <<x>> \o sorted
    ELSE <<Head(sorted)>> \o SortedInsert(Tail(sorted), x)

\* the parameters left in key-specification order
sort_by_name_unsorted(params) == params

RECURSIVE sort_by_name(_)
\* line 444: slice::sort_by on the names, a stable sort
sort_by_name(params) ==
    IF params = <<>> THEN <<>>
    ELSE SortedInsert(sort_by_name(SubSeq(params, 1, Len(params) - 1)),
                      params[Len(params)])

\* lines 447-465: the sorted parameters, a "," written before each but the first
RECURSIVE ParamWrites(_, _)
ParamWrites(params, first) ==
    IF params = <<>> THEN <<>>
    ELSE (IF ~first THEN <<W("sep", <<>>, <<>>, TRUE)>> ELSE <<>>)
         \o <<W("param", php_escape(Head(params).key),
                php_escape(Head(params).value), FALSE)>>
         \o ParamWrites(Tail(params), FALSE)

\* the comma test off by one: a comma after the last profile too
ProfileCloseComma_off_by_one(pi, profiles_len) == pi < profiles_len

\* line 468
ProfileCloseComma(pi, profiles_len) == pi + 1 < profiles_len

\* line 485
EngineCloseComma(ei, engines_len) == ei + 1 < engines_len

\* lines 416 and 479: both format strings of the end of "data" hold a comma
DataComma == TRUE

\* lines 425-476: one profile; pi counts from 0
ProfileWrites(profile, pi, profiles_len, specs, checks) ==
    LET open == W("profile_open", <<"p">> \o NatToString(pi), <<>>, FALSE)
        pp == profile_params(profile, specs, checks)
    IN  IF pp.panic THEN [panic |-> TRUE, recs |-> <<open>>]
        ELSE [panic |-> FALSE,
              recs |-> <<open>> \o ParamWrites(sort_by_name(pp.params), TRUE)
                       \o <<W("profile_close", <<>>, <<>>,
                              ProfileCloseComma(pi, profiles_len))>>]

RECURSIVE ProfilesWrites(_, _, _, _)
ProfilesWrites(profiles, pi, specs, checks) ==
    IF pi >= Len(profiles) THEN [panic |-> FALSE, recs |-> <<>>]
    ELSE LET one == ProfileWrites(profiles[pi + 1], pi, Len(profiles), specs, checks)
         IN  IF one.panic THEN one
             ELSE LET rest == ProfilesWrites(profiles, pi + 1, specs, checks)
                  IN  [panic |-> rest.panic, recs |-> one.recs \o rest.recs]

\* lines 384-413: the limits that are Some, in the order of the code
RECURSIVE LimitWrites(_)
LimitWrites(lims) ==
    IF lims = <<>> THEN <<>>
    ELSE (IF Head(lims).opt.some
          THEN <<W("field", Head(lims).name, php_escape(Head(lims).opt.v), TRUE)>>
          ELSE <<>>) \o LimitWrites(Tail(lims))

\* lines 340-493: one iteration of the engine loop; ei counts from 0
EngineWrites(engine, ei, engines_len, lims, specs, checks) ==
    LET head == << W("engine_open", engine.id, <<>>, FALSE),
                   W("field", "name", php_escape(engine.name), TRUE),
                   W("field", "description", php_escape(engine.description), TRUE),
                   W("field", "prefix", php_escape(engine.prefix), TRUE),
                   W("field", "count", NatToString(Len(engine.profiles)), TRUE) >>
                \o LimitWrites(lims)
        close == W("engine_close", <<>>, <<>>, EngineCloseComma(ei, engines_len))
    IN  IF engine.profiles = <<>>
        THEN [panic |-> FALSE,
              recs |-> head \o <<W("data_empty", <<>>, <<>>, DataComma), close>>]
        ELSE LET ps == ProfilesWrites(engine.profiles, 0, specs, checks)
             IN  IF ps.panic
                 THEN [panic |-> TRUE,
                       recs |-> head \o <<W("data_open", <<>>, <<>>, FALSE)>> \o ps.recs]
                 ELSE [panic |-> FALSE,
                       recs |-> head \o <<W("data_open", <<>>, <<>>, FALSE)>> \o ps.recs
                                \o <<W("data_close", <<>>, <<>>, DataComma), close>>]

(***************************************************************************)
(* Bounded sets of strings.                                                *)
(***************************************************************************)
RECURSIVE SeqsUpTo(_, _)
SeqsUpTo(S, n) ==
    IF n = 0 THEN {<<>>}
    ELSE LET r == SeqsUpTo(S, n - 1)
         IN  r \cup {Append(s, c) : s \in {t \in r : Len(t) = n - 1}, c \in S}

(***************************************************************************)
(* Calls of the pure functions.                                            *)
(***************************************************************************)
IdleH2B == tok = <<>> /\ tok_out = Ret(<<>>) /\ hpc = "idle"
IdleEsc == esc_in = <<>> /\ esc_out = <<>> /\ epc = "idle"
IdleParse ==
    /\ p_file = [open |-> FALSE, lines |-> <<>>]
    /\ p_idx = 0 /\ current_line = <<>> /\ map = EmptyMap /\ ppc = "idle"
IdleMain ==
    /\ args = <<>> /\ env = <<>> /\ pc = "idle"
    /\ output_path = <<>> /\ engines = <<>> /\ key_specs = <<>> /\ limits = <<>>
    /\ paths = <<>> /\ pidx = 0 /\ ewritten = 0
    /\ out_created = FALSE /\ out = <<>> /\ stderr = <<>>

TokAlphabet == {" ", "0", "1", "k", "G", "x", KELVIN}

\* tokens at and around the u64 limit: 2^24 t = 2^64, u64::MAX, u64::MAX + 1
BigTokens ==
    { <<"1","6","7","7","7","2","1","6","t">>,
      <<"1","6","7","7","7","2","1","5","t">>,
      <<" ","1","6","7","7","7","2","1","5","T"," ">>,
      u64_to_string(U64Max),
      Append(u64_to_string(U64Max), "k"),
      Append(u64_to_string(MulAdd(U64Max, 1, 1)), "k"),
      <<"1","8","0","1","4","3","9","8","5","0","9","4","8","1","9","8","5","k">> }

Tokens == SeqsUpTo(TokAlphabet, MaxTokLen) \cup BigTokens

InitH2B ==
    /\ overflow_checks \in BOOLEAN
    /\ tok \in Tokens /\ tok_out = Ret(<<>>) /\ hpc = "call"
    /\ IdleEsc /\ IdleParse /\ IdleMain

H2BCall ==
    /\ hpc = "call"
    /\ tok_out' = human_to_bytes(tok, overflow_checks)
    /\ hpc' = "ret"
    /\ UNCHANGED <<overflow_checks, tok, esc_in, esc_out, epc, parsevars, mainvars>>

SpecH2B == InitH2B /\ [][H2BCall]_vars

EscAlphabet == {BSL, DQ, "a"}

InitEsc ==
    /\ overflow_checks = FALSE
    /\ esc_in \in SeqsUpTo(EscAlphabet, MaxEscLen) /\ esc_out = <<>> /\ epc = "call"
    /\ IdleH2B /\ IdleParse /\ IdleMain

EscCall ==
    /\ epc = "call"
    /\ esc_out' = php_escape(esc_in)
    /\ epc' = "ret"
    /\ UNCHANGED <<overflow_checks, tok, tok_out, hpc, esc_in, parsevars, mainvars>>

(***************************************************************************)
(* parse_shell_config line by line.                                        *)
(***************************************************************************)
LineCatalogue ==
    { Line(<<>>),
      Line(<<" ", "#", "a", "=", "1", BSL>>),
      Line(<<"a", "=", BSL, " ">>),
      Line(<<"b", BSL>>),
      Line(<<" ", "a", " ", "=", " ", "1">>),
      Line(<<DQ, "x", DQ>>),
      Line(<<"k", "=", DQ>>),
      Line(<<"k", "=", SQ, "x", "=", SQ>>),
      Line(<<DQ>>),
      Line(<<"k", "=", DQ, SQ>>),
      BadLine }

InitParse ==
    /\ overflow_checks = FALSE
    /\ p_file \in [open : BOOLEAN, lines : SeqsUpTo(LineCatalogue, MaxLines)]
    /\ p_idx = 0 /\ current_line = <<>> /\ map = EmptyMap /\ ppc = "open"
    /\ IdleH2B /\ IdleEsc /\ IdleMain

\* line 8: File::open(path)?
ParseOpen ==
    /\ ppc = "open"
    /\ IF p_file.open THEN ppc' = "loop" /\ p_idx' = 1
                      ELSE ppc' = "err" /\ p_idx' = p_idx
    /\ UNCHANGED <<overflow_checks, fnvars, mainvars, p_file, current_line, map>>

\* lines 14-52: one iteration of the loop
ParseLine ==
    /\ ppc = "loop"
    /\ p_idx <= Len(p_file.lines)
    /\ IF p_file.lines[p_idx].err
       THEN ppc' = "err" /\ UNCHANGED <<p_idx, current_line, map>>
       ELSE LET r == LineStep(current_line, map, p_file.lines[p_idx].text)
            IN  /\ current_line' = r.current_line
                /\ map' = r.map
                /\ IF r.panic THEN ppc' = "panic" /\ p_idx' = p_idx
                              ELSE ppc' = "loop" /\ p_idx' = p_idx + 1
    /\ UNCHANGED <<overflow_checks, fnvars, mainvars, p_file>>

\* line 54: Ok(map)
ParseReturn ==
    /\ ppc = "loop"
    /\ p_idx > Len(p_file.lines)
    /\ ppc' = "ok"
    /\ UNCHANGED <<overflow_checks, fnvars, mainvars, p_file, p_idx, current_line, map>>

NextParse == ParseOpen \/ ParseLine \/ ParseReturn

SpecParse == InitParse /\ [][NextParse]_vars

(***************************************************************************)
(* The files the profile paths may name. A path outside the catalogue      *)
(* names no file: File::open fails.                                        *)
(***************************************************************************)
Assign(key, value) == Line(key \o <<"=">> \o value)

P1 == <<"p", "1">>
P2 == <<"p", "2">>
P3 == <<"p", "3">>
P4 == <<"p", "4">>
P5 == <<"p", "5">>
P0 == <<"p", "0">>

File1 ==
    [open |-> TRUE,
     lines |-> << Line(<<"#", " ", "p", "1">>),
                  Assign(S_bhyve \o S_active, <<"1">>),
                  Assign(<<"a">>, <<"1", "k">>),
                  Assign(<<"b">>, <<"x", DQ, "y", BSL, "z">>) >>]

File2 ==
    [open |-> TRUE,
     lines |-> << Assign(S_xen \o S_active, <<DQ, "1", DQ>>),
                  Assign(<<" ">> \o S_bhyve \o S_active \o <<" ">>, <<" ", SQ, "1", SQ, " ">>),
                  Line(<<>>),
                  Assign(<<"a">>, <<" ", "2", "G", " ">>),
                  Assign(<<"a", DQ>>, <<DQ, " ", "3", "m", DQ>>) >>]

File3 ==
    [open |-> TRUE,
     lines |-> << Assign(S_bhyve \o S_active, <<"0">>),
                  Assign(S_xen \o S_active, <<"1", "1">>),
                  Line(S_qemu \o S_active \o <<BSL>>),
                  Line(<<" ", "=", " ", "1">>),
                  Assign(<<"a">>, <<"1","6","7","7","7","2","1","6","t">>),
                  Assign(<<"b">>, <<>>),
                  Assign(<<"b">>, <<"b", "2">>) >>]

\* a read error after the activation line
File4 ==
    [open |-> TRUE,
     lines |-> << Assign(S_bhyve \o S_active, <<"1">>), BadLine >>]

\* a value that is one quote character
File5 ==
    [open |-> TRUE,
     lines |-> << Assign(S_bhyve \o S_active, <<"1">>), Assign(<<"k">>, <<DQ>>) >>]

NoFile == [open |-> FALSE, lines |-> <<>>]

FileAt(path) ==
    IF path = P1 THEN File1
    ELSE IF path = P2 THEN File2
    ELSE IF path = P3 THEN File3
    ELSE IF path = P4 THEN File4
    ELSE IF path = P5 THEN File5
    ELSE NoFile

(***************************************************************************)
(* main, stage by stage. exit(1) is pc = "exit1", a panic is pc = "panic", *)
(* the normal return is pc = "done".                                       *)
(***************************************************************************)
Msg(m, a) == [msg |-> m, arg |-> a]

Exit1(m, a) ==
    /\ pc' = "exit1"
    /\ stderr' = Append(stderr, Msg(m, a))

ParsedArgs == ArgLoop(args, 2, None, None)

\* lines 163-215: argument parsing and the two required options
ParseArgs ==
    /\ pc = "start"
    /\ IF Len(args) < 5 THEN Exit1("usage", <<>>)
       ELSE IF ParsedArgs.fail THEN Exit1("bad_argument", <<>>)
       ELSE IF ~ParsedArgs.capabilities.some THEN Exit1("c_required", <<>>)
       ELSE IF ~ParsedArgs.output_path.some THEN Exit1("o_required", <<>>)
       ELSE pc' = "engines" /\ stderr' = stderr
    /\ output_path' = IF ParsedArgs.output_path.some THEN ParsedArgs.output_path.v
                      ELSE output_path
    /\ UNCHANGED <<overflow_checks, fnvars, parsevars, args, env, engines, key_specs,
                   limits, paths, pidx, ewritten, out_created, out>>

\* lines 217-251: the engine registry from -c
ReadEngines ==
    /\ pc = "engines"
    /\ LET engine_ids == split_whitespace(ParsedArgs.capabilities.v)
           built == BuildEngines(engine_ids)
       IN  IF engine_ids = <<>>
           THEN Exit1("no_engines_specified", <<>>) /\ engines' = engines
           ELSE /\ engines' = built
                /\ IF built = <<>>
                   THEN /\ pc' = "exit1"
                        /\ stderr' = stderr \o EngineWarnings(engine_ids)
                                     \o <<Msg("no_valid_engines", <<>>)>>
                   ELSE /\ pc' = "keys"
                        /\ stderr' = stderr \o EngineWarnings(engine_ids)
    /\ UNCHANGED <<overflow_checks, fnvars, parsevars, args, env, output_path, key_specs,
                   limits, paths, pidx, ewritten, out_created, out>>

\* lines 253-271: CIX_PROFILES_DATA
ReadKeySpecs ==
    /\ pc = "keys"
    /\ IF ~env.CIX_PROFILES_DATA.some
       THEN Exit1("no_CIX_PROFILES_DATA", <<>>) /\ key_specs' = key_specs
       ELSE /\ key_specs' = KeySpecsOf(env.CIX_PROFILES_DATA.v)
            /\ IF key_specs' = <<>> THEN Exit1("CIX_PROFILES_DATA_empty", <<>>)
               ELSE pc' = "limits" /\ stderr' = stderr
    /\ UNCHANGED <<overflow_checks, fnvars, parsevars, args, env, output_path, engines,
                   limits, paths, pidx, ewritten, out_created, out>>

\* lines 274-275: env::var(..).ok().map(trim).filter(non-empty)
RawLimit(o) ==
    IF o.some /\ trim(o.v) # <<>> THEN Some(trim(o.v)) ELSE None

\* lines 277-292: env::var(..).ok().map(human_to_bytes(trim)).filter(non-empty)
SizeLimit(o, checks) ==
    IF ~o.some THEN [panic |-> FALSE, opt |-> None]
    ELSE LET r == human_to_bytes(trim(o.v), checks)
         IN  IF r.panic THEN [panic |-> TRUE, opt |-> None]
             ELSE [panic |-> FALSE, opt |-> IF r.val # <<>> THEN Some(r.val) ELSE None]

\* lines 273-292: the six optional limits, in the order the emitter writes them
ReadLimits ==
    /\ pc = "limits"
    /\ LET ram_max == SizeLimit(env.VM_RAM_MAX, overflow_checks)
           ram_min == SizeLimit(env.VM_RAM_MIN, overflow_checks)
           img_max == SizeLimit(env.IMGSIZE_MAX, overflow_checks)
           img_min == SizeLimit(env.IMGSIZE_MIN, overflow_checks)
       IN  IF ram_max.panic \/ ram_min.panic \/ img_max.panic \/ img_min.panic
           THEN pc' = "panic" /\ limits' = limits
           ELSE /\ pc' = "profiles"
                /\ limits' = << [name |-> "vm_cpus_max", opt |-> RawLimit(env.VM_CPUS_MAX)],
                                [name |-> "vm_cpus_min", opt |-> RawLimit(env.VM_CPUS_MIN)],
                                [name |-> "vm_ram_max", opt |-> ram_max.opt],
                                [name |-> "vm_ram_min", opt |-> ram_min.opt],
                                [name |-> "imgsize_max", opt |-> img_max.opt],
                                [name |-> "imgsize_min", opt |-> img_min.opt] >>
    /\ UNCHANGED <<overflow_checks, fnvars, parsevars, args, env, output_path, engines,
                   key_specs, paths, pidx, ewritten, out_created, out, stderr>>

\* lines 296-304: CIX_PROFILES and the start of the loop over its paths
ReadProfilesEnv ==
    /\ pc = "profiles"
    /\ IF ~env.CIX_PROFILES.some
       THEN Exit1("no_CIX_PROFILES", <<>>) /\ UNCHANGED <<paths, pidx>>
       ELSE /\ paths' = split_whitespace(env.CIX_PROFILES.v)
            /\ pidx' = 1
            /\ pc' = "aggregate"
            /\ stderr' = stderr
    /\ UNCHANGED <<overflow_checks, fnvars, parsevars, args, env, output_path, engines,
                   key_specs, limits, ewritten, out_created, out>>

\* lines 304-320: one iteration of the loop over the profile paths
ProcessProfile ==
    /\ pc = "aggregate"
    /\ pidx <= Len(paths)
    /\ LET r == parse_shell_config(FileAt(paths[pidx]))
       IN  IF r.tag = "panic"
           THEN pc' = "panic" /\ UNCHANGED <<engines, pidx, stderr>>
           ELSE /\ pc' = pc
                /\ pidx' = pidx + 1
                /\ IF r.tag = "ok"
                   THEN engines' = Distribute(engines, r.map) /\ stderr' = stderr
                   ELSE /\ engines' = engines
                        /\ stderr' = Append(stderr, Msg("file_access", paths[pidx]))
    /\ UNCHANGED <<overflow_checks, fnvars, parsevars, args, env, output_path, key_specs,
                   limits, paths, ewritten, out_created, out>>

\* the output created while profile files are still to be processed
AggregationDone_early == pidx >= Len(paths)

\* the loop over the profile paths has ended
AggregationDone == pidx > Len(paths)

\* lines 323-329: File::create, which may fail
CreateOutput ==
    /\ pc = "aggregate"
    /\ AggregationDone
    /\ \E created \in BOOLEAN :
          IF created
          THEN out_created' = TRUE /\ out' = <<>> /\ pc' = "header" /\ stderr' = stderr
          ELSE /\ Exit1("cannot_create", output_path)
               /\ UNCHANGED <<out_created, out>>
    /\ UNCHANGED <<overflow_checks, fnvars, parsevars, args, env, output_path, engines,
                   key_specs, limits, paths, pidx, ewritten>>

\* the writes recs in order, any of which may fail: n of them succeed
WriteAll(recs, panics, next) ==
    \E n \in 0..Len(recs) :
        /\ out' = out \o SubSeq(recs, 1, n)
        /\ pc' = IF n < Len(recs) THEN "exit1" ELSE IF panics THEN "panic" ELSE next

\* lines 331-336
WriteHeader ==
    /\ pc = "header"
    /\ WriteAll(<<W("php_open", <<>>, <<>>, FALSE),
                  W("engines_open", <<>>, <<>>, FALSE)>>, FALSE, "emit")
    /\ ewritten' = 0
    /\ UNCHANGED <<overflow_checks, fnvars, parsevars, args, env, output_path, engines,
                   key_specs, limits, paths, pidx, out_created, stderr>>

\* lines 339-494: one iteration of the loop over the engines
WriteEngine ==
    /\ pc = "emit"
    /\ ewritten < Len(engines)
    /\ LET w == EngineWrites(engines[ewritten + 1], ewritten, Len(engines), limits, key_specs,
                             overflow_checks)
       IN  WriteAll(w.recs, w.panic, "emit")
    /\ ewritten' = ewritten + 1
    /\ UNCHANGED <<overflow_checks, fnvars, parsevars, args, env, output_path, engines,
                   key_specs, limits, paths, pidx, out_created, stderr>>

\* lines 496-499
WriteFooter ==
    /\ pc = "emit"
    /\ ewritten = Len(engines)
    /\ WriteAll(<<W("engines_close", <<>>, <<>>, FALSE)>>, FALSE, "done")
    /\ UNCHANGED <<overflow_checks, fnvars, parsevars, args, env, output_path, engines,
                   key_specs, limits, paths, pidx, ewritten, out_created, stderr>>

NextMain ==
    \/ ParseArgs
    \/ ReadEngines
    \/ ReadKeySpecs
    \/ ReadLimits
    \/ ReadProfilesEnv
    \/ ProcessProfile
    \/ CreateOutput
    \/ WriteHeader
    \/ WriteEngine
    \/ WriteFooter

(***************************************************************************)
(* Inputs of main.                                                         *)
(***************************************************************************)
RECURSIVE Join(_, _)
Join(parts, sep) ==
    IF parts = <<>> THEN <<>>
    ELSE IF Len(parts) = 1 THEN parts[1]
    ELSE parts[1] \o sep \o Join(Tail(parts), sep)

Prog == <<"c", "p">>
OutPath == <<"o">>

Argv(cap) == <<Prog, A_c, cap, A_o, OutPath>>

\* argument vectors main rejects
BadArgvs ==
    { <<Prog, A_o, OutPath, A_o, OutPath>>,
      <<Prog, A_c, S_xen, A_c, S_bhyve>>,
      <<Prog, A_c, S_xen>>,
      <<Prog, A_c, S_xen, A_o, OutPath, A_c>>,
      <<Prog, A_c, S_xen, A_o, OutPath, A_o>>,
      <<Prog, S_xen, A_c, S_xen, A_o, OutPath>> }

EngineTokens == {S_bhyve, S_xen, S_vbox}

\* the -c strings: up to MaxEngines identifiers, and some with other spacing
CapStrings ==
    {Join(l, <<" ">>) : l \in SeqsUpTo(EngineTokens, MaxEngines)}
    \cup { <<" ", "\t">>,
           <<" ">> \o S_qemu \o <<"\t", " ">> \o S_vbox \o <<" ">> \o S_qemu \o <<" ">> }

PathTokens == {P1, P2, P3, P4, P5}

\* the CIX_PROFILES strings: up to MaxFiles paths, and one naming a missing file
ProfileStrings ==
    {Join(l, <<" ">>) : l \in SeqsUpTo(PathTokens, MaxFiles)}
    \cup { <<" ">> \o P0 \o <<"\t">> \o P2 \o <<" ">> }

KeyEntries ==
    { <<"a", ":", "b", "y", "t", "e", "s">>,
      <<" ", "a", " ">>,
      <<"b">>,
      <<"z", ":", "x">> }

\* the CIX_PROFILES_DATA strings: up to MaxSpecs entries, and some odd ones
KeyStrings ==
    {Join(l, <<",">>) : l \in SeqsUpTo(KeyEntries, MaxSpecs)}
    \cup { <<",", " ", ",", ":", "b", "y", "t", "e", "s">>,
           <<"b", ",", "a", DQ, " ", ":", " ", "B", "y", "T", "E", "S", " ", ",", ",", "a">> }

NoLimits == <<None, None, None, None, None, None>>

LimitChoices ==
    { NoLimits,
      << Some(<<" ", "8", " ">>), Some(<<>>), Some(<<"4", "g">>),
         Some(<<" ", "5", "1", "2">>), Some(<<"1", DQ, BSL>>), Some(<<" ">>) >>,
      << None, Some(<<"1">>), Some(<<"1","6","7","7","7","2","1","6","t">>),
         None, None, Some(<<"2", "K">>) >> }

EnvOf(keys, profiles, lims) ==
    [CIX_PROFILES_DATA |-> keys, CIX_PROFILES |-> profiles,
     VM_CPUS_MAX |-> lims[1], VM_CPUS_MIN |-> lims[2],
     VM_RAM_MAX |-> lims[3], VM_RAM_MIN |-> lims[4],
     IMGSIZE_MAX |-> lims[5], IMGSIZE_MIN |-> lims[6]]

DefaultKeys == <<"a", ":", "b", "y", "t", "e", "s", ",", "b">>
DefaultProfiles == Join(<<P1, P2, P3>>, <<" ">>)

\* the state of main at its entry, on one argv and one environment
InitMainOn(a, e) ==
    /\ args = a /\ env = e
    /\ pc = "start"
    /\ output_path = <<>> /\ engines = <<>> /\ key_specs = <<>> /\ limits = <<>>
    /\ paths = <<>> /\ pidx = 0 /\ ewritten = 0
    /\ out_created = FALSE /\ out = <<>> /\ stderr = <<>>
    /\ IdleH2B /\ IdleEsc /\ IdleParse

\* the engine list and the profile list vary
InitAgg ==
    /\ overflow_checks \in BOOLEAN
    /\ \/ \E c \in CapStrings, p \in ProfileStrings :
             InitMainOn(Argv(c), EnvOf(Some(DefaultKeys), Some(p), NoLimits))
       \/ \E a \in BadArgvs :
             InitMainOn(a, EnvOf(Some(DefaultKeys), Some(DefaultProfiles), NoLimits))
       \/ \E k \in {None, Some(<<>>), Some(<<",", " ">>)} :
             InitMainOn(Argv(S_xen), EnvOf(k, Some(DefaultProfiles), NoLimits))
       \/ InitMainOn(Argv(S_xen), EnvOf(Some(DefaultKeys), None, NoLimits))

SpecAgg == InitAgg /\ [][NextMain]_vars

\* the key specification and the limits vary
InitEmit ==
    /\ overflow_checks \in BOOLEAN
    /\ \E c \in { S_bhyve, Join(<<S_xen, S_bhyve>>, <<" ">>),
                  Join(<<S_vbox, S_qemu, S_bhyve>>, <<" ">>) },
          p \in { DefaultProfiles, Join(<<P1, P2>>, <<" ">>), <<>> },
          k \in KeyStrings,
          l \in LimitChoices :
             InitMainOn(Argv(c), EnvOf(Some(k), Some(p), l))

SpecEmit == InitEmit /\ [][NextMain]_vars

\* php_escape alone, and php_escape as main calls it
InitEscOrEmit == InitEsc \/ InitEmit

NextEsc == EscCall \/ NextMain

SpecEsc == InitEscOrEmit /\ [][NextEsc]_vars

(***************************************************************************)
(* Claims about human_to_bytes, under SpecH2B.                             *)
(***************************************************************************)
AllDigits(s) == \A i \in 1..Len(s) : s[i] \in Digits

\* the exponent i of 1024 a suffix character stands for; 0 for any other character
SuffixExpAscii(c) ==
    IF c \in {"k", "K"} THEN 1
    ELSE IF c \in {"m", "M"} THEN 2
    ELSE IF c \in {"g", "G"} THEN 3
    ELSE IF c \in {"t", "T"} THEN 4
    ELSE 0

SuffixExp(c) == IF c = KELVIN THEN 1 ELSE SuffixExpAscii(c)

\* a non-empty run of digits followed by exactly one character
DigitsThenOne(s) == Len(s) >= 2 /\ AllDigits(SubSeq(s, 1, Len(s) - 1))

NumberOf(s) == StripZeros(DigitsOf(SubSeq(s, 1, Len(s) - 1)))

RECURSIVE DivBy1024(_, _)
DivBy1024(ds, e) == IF e = 0 THEN ds ELSE DivBy1024(DivSmall(ds, 1024), e - 1)

RECURSIVE Divisible1024(_, _)
Divisible1024(ds, e) ==
    e = 0 \/ (ModSmall(ds, 1024) = 0 /\ Divisible1024(DivSmall(ds, 1024), e - 1))

\* n * 1024^e < 2^64, as n <= floor((2^64 - 1) / 1024^e)
FitsU64(n, e) == NumLeq(n, DivBy1024(U64Max, e))

\* r is the decimal string of n * 1024^e: canonical digits, divisible e times by 1024
\* with quotient n
IsProductString(r, n, e) ==
    /\ r # <<>> /\ AllDigits(r)
    /\ (Len(r) > 1 => r[1] # "0")
    /\ Divisible1024(DigitsOf(r), e)
    /\ DivBy1024(DigitsOf(r), e) = n

\* C3 as stated: the decimal string of n * 1024^i for digits followed by one of
\* k, m, g, t in either case, and in every other case the original token, with the
\* whitespace it had
C3_Original ==
    hpc = "ret" =>
        LET s == trim(tok)
        IN  IF DigitsThenOne(s) /\ SuffixExpAscii(s[Len(s)]) > 0
            THEN /\ ~tok_out.panic
                 /\ IsProductString(tok_out.val, NumberOf(s), SuffixExpAscii(s[Len(s)]))
            ELSE tok_out = Ret(tok)

\* C3 amended: human_to_bytes returns the decimal string of n * 1024^i when the
\* trimmed token is a non-empty run of ASCII digits n followed by exactly one
\* character whose lowercase form is k, m, g or t (the ASCII letters in either
\* case, and U+212A KELVIN SIGN for k) and n * 1024^i < 2^64; when the trimmed
\* token has no such form it returns the trimmed token, without the surrounding
\* whitespace
C3_HumanToBytesTrimmed ==
    hpc = "ret" =>
        LET s == trim(tok)
        IN  IF DigitsThenOne(s) /\ SuffixExp(s[Len(s)]) > 0
            THEN FitsU64(NumberOf(s), SuffixExp(s[Len(s)])) =>
                    /\ ~tok_out.panic
                    /\ IsProductString(tok_out.val, NumberOf(s), SuffixExp(s[Len(s)]))
            ELSE tok_out = Ret(s)

\* a token with surrounding whitespace was converted, and one was returned trimmed
C3_Witness ==
    /\ hpc = "ret"
    /\ tok = <<" ", "1", "G">>
    /\ tok_out = Ret(<<"1", "0", "7", "3", "7", "4", "1", "8", "2", "4">>)

(***************************************************************************)
(* Claims about php_escape, under SpecEsc.                                 *)
(***************************************************************************)
RECURSIVE EscapeEach(_)
\* each backslash and each double quote preceded by one added backslash
EscapeEach(s) ==
    IF s = <<>> THEN <<>>
    ELSE (IF Head(s) \in {BSL, DQ} THEN <<BSL, Head(s)>> ELSE <<Head(s)>>)
         \o EscapeEach(Tail(s))

RECURSIVE Unescape(_)
\* the added backslashes removed: a backslash is dropped and the next character kept
Unescape(s) ==
    IF s = <<>> THEN <<>>
    ELSE IF Head(s) = BSL /\ Len(s) >= 2 THEN <<s[2]>> \o Unescape(SubSeq(s, 3, Len(s)))
    ELSE <<Head(s)>> \o Unescape(Tail(s))

(***************************************************************************)
(* Claims about parse_shell_config, under SpecParse.                       *)
(***************************************************************************)
\* quote stripping as specified: at least two characters and a matching pair
StripQuotes(v) ==
    IF Len(v) >= 2 /\ ((v[1] = DQ /\ v[Len(v)] = DQ) \/ (v[1] = SQ /\ v[Len(v)] = SQ))
    THEN SubSeq(v, 2, Len(v) - 1)
    ELSE v

Readable(f) == f.open /\ \A i \in 1..Len(f.lines) : ~f.lines[i].err

IsBlankOrComment(l) == trim(l) = <<>> \/ trim(l)[1] = "#"

Continues(l) == ~IsBlankOrComment(l) /\ trim(l)[Len(trim(l))] = BSL

\* the logical line the loop is about to complete with physical line i
PendingLogical == current_line \o trim(p_file.lines[p_idx].text)

\* C2: quote stripping applies only to a raw value of at least two characters that
\* starts and ends with the same quote character, and then removes the first and
\* the last character; a raw value that is one quote character is not treated as
\* quoted: parsing goes on and the key maps to that value unchanged
C2_Original ==
    [][ ( /\ ppc = "loop" /\ p_idx <= Len(p_file.lines)
          /\ ~p_file.lines[p_idx].err
          /\ ~IsBlankOrComment(p_file.lines[p_idx].text)
          /\ ~Continues(p_file.lines[p_idx].text)
          /\ find(PendingLogical, "=") # 0 )
        => LET pos == find(PendingLogical, "=")
               key == trim(SubSeq(PendingLogical, 1, pos - 1))
               raw == trim(SubSeq(PendingLogical, pos + 1, Len(PendingLogical)))
           IN  /\ ppc' = "loop"
               /\ key \in DOMAIN map'
               /\ map'[key] = StripQuotes(raw) ]_vars

\* the physical lines that count: trimmed, blank and comment lines left out
RECURSIVE Significant(_)
Significant(lines) ==
    IF lines = <<>> THEN <<>>
    ELSE (IF IsBlankOrComment(Head(lines).text) THEN <<>> ELSE <<trim(Head(lines).text)>>)
         \o Significant(Tail(lines))

\* the completed logical lines; a continuation left open at the end is dropped
RECURSIVE LogicalLines(_, _)
LogicalLines(sig, acc) ==
    IF sig = <<>> THEN <<>>
    ELSE IF Head(sig)[Len(Head(sig))] = BSL
    THEN LogicalLines(Tail(sig), acc \o trim(SubSeq(Head(sig), 1, Len(Head(sig)) - 1)))
    ELSE <<acc \o Head(sig)>> \o LogicalLines(Tail(sig), <<>>)

\* the entries of the logical lines, a later assignment replacing an earlier one
RECURSIVE EntriesOf(_)
EntriesOf(logical) ==
    IF logical = <<>> THEN EmptyMap
    ELSE LET before == EntriesOf(SubSeq(logical, 1, Len(logical) - 1))
             l == logical[Len(logical)]
             pos == find(l, "=")
         IN  IF pos = 0 THEN before
             ELSE [k \in DOMAIN before \cup {trim(SubSeq(l, 1, pos - 1))} |->
                     IF k = trim(SubSeq(l, 1, pos - 1))
                     THEN StripQuotes(trim(SubSeq(l, pos + 1, Len(l))))
                     ELSE before[k]]

\* a new logical line begins at physical line i: no counted line before it, or the
\* last counted line before it has no trailing backslash
BeginsLogical(lines, i) ==
    LET sig == Significant(SubSeq(lines, 1, i - 1))
    IN  sig = <<>> \/ sig[Len(sig)][Len(sig[Len(sig)])] # BSL

EndsOnContinuation(lines) == lines # <<>> /\ Continues(lines[Len(lines)].text)

\* C9: the buffer is empty whenever a new logical line begins; the result holds
\* exactly the entries of the completed logical lines, so a line without `=`, a
\* blank line and a comment line add nothing; and a file that ends on a trailing
\* backslash returns successfully, the unterminated line dropped
C9_Original ==
    /\ (ppc = "loop" /\ p_idx <= Len(p_file.lines) /\ Readable(p_file)
            /\ BeginsLogical(p_file.lines, p_idx)) => current_line = <<>>
    /\ ppc = "ok" => map = EntriesOf(LogicalLines(Significant(p_file.lines), <<>>))
    /\ (ppc \in {"err", "panic"} /\ Readable(p_file) /\ EndsOnContinuation(p_file.lines))
            => FALSE

(***************************************************************************)
(* Claims about the engine registry and the aggregation, under SpecAgg.    *)
(***************************************************************************)
KnownEngineIds == {S_bhyve, S_xen, S_qemu}

RECURSIVE KeepKnown(_)
\* the identifiers of the closed set, in the order given
KeepKnown(ids) ==
    IF ids = <<>> THEN <<>>
    ELSE (IF Head(ids) \in KnownEngineIds THEN <<Head(ids)>> ELSE <<>>)
         \o KeepKnown(Tail(ids))

\* the value given to an option: options sit at the even positions of argv
HasOption(flag) ==
    \E i \in 2..(Len(args) - 1) : i % 2 = 0 /\ args[i] = flag

\* the position of the last -c option
LastCapOption ==
    CHOOSE i \in 2..(Len(args) - 1) :
        /\ i % 2 = 0 /\ args[i] = A_c
        /\ \A j \in (i + 1)..(Len(args) - 1) : ~(j % 2 = 0 /\ args[j] = A_c)

SuppliedIds ==
    IF HasOption(A_c) THEN split_whitespace(args[LastCapOption + 1]) ELSE <<>>

ArgsAccepted ==
    /\ Len(args) >= 5 /\ Len(args) % 2 = 1
    /\ \A i \in 2..Len(args) : i % 2 = 0 => args[i] \in {A_c, A_o}
    /\ HasOption(A_c) /\ HasOption(A_o)

PastEngines == pc \in {"keys", "limits", "profiles", "aggregate", "header", "emit", "done"}

Aggregating == pc \in {"aggregate", "header", "emit", "done"}

HasMsg(m) == \E i \in 1..Len(stderr) : stderr[i].msg = m

EngineOpenIds ==
    LET IsEngineOpen(r) == r.k = "engine_open"
        opens == SelectSeq(out, IsEngineOpen)
    IN  [i \in 1..Len(opens) |-> opens[i].a]

\* the first n profile files that parsed and whose mapping holds <id>_active = "1",
\* in listed order
RECURSIVE ActiveConfigs(_, _)
ActiveConfigs(id, n) ==
    IF n = 0 THEN <<>>
    ELSE LET r == parse_shell_config(FileAt(paths[n]))
             key == id \o <<"_", "a", "c", "t", "i", "v", "e">>
         IN  ActiveConfigs(id, n - 1)
             \o (IF r.tag = "ok" /\ key \in DOMAIN r.map /\ r.map[key] = <<"1">>
                 THEN <<r.map>> ELSE <<>>)

\* C1: during and after aggregation every engine's profile sequence is the
\* subsequence, in listed order, of the processed files that parsed and hold
\* <engine-id>_active = "1"; after aggregation every listed file is processed
C1_AggregationBySubsequence ==
    Aggregating =>
        /\ \A i \in 1..Len(engines) :
              engines[i].profiles = ActiveConfigs(engines[i].id, pidx - 1)
        /\ pc # "aggregate" => pidx = Len(paths) + 1

\* after aggregation: a file that could not be read before a file appended to two
\* engines at once
C1_Witness ==
    /\ pc = "done"
    /\ Len(engines) = 2 /\ engines[1].id # engines[2].id
    /\ engines[1].profiles # <<>>
    /\ engines[1].profiles = engines[2].profiles
    /\ HasMsg("file_access")
    /\ Len(paths) = 2

\* C7: the engines, and the engines of the output, are the supplied identifiers
\* with those outside {bhyve, xen, qemu} removed, order kept; each removed one is
\* warned about; the run ends at the registry, with no output, exactly when none
\* remains
C7_EnginesFiltered ==
    /\ PastEngines =>
          /\ [i \in 1..Len(engines) |-> engines[i].id] = KeepKnown(SuppliedIds)
          /\ KeepKnown(SuppliedIds) # <<>>
          /\ \A i \in 1..Len(SuppliedIds) :
                SuppliedIds[i] \notin KnownEngineIds
                    => Msg("unknown_engine", SuppliedIds[i]) \in
                           {stderr[j] : j \in 1..Len(stderr)}
    /\ pc = "done" => EngineOpenIds = KeepKnown(SuppliedIds)
    /\ (HasMsg("no_valid_engines") \/ HasMsg("no_engines_specified")) =>
          /\ KeepKnown(SuppliedIds) = <<>>
          /\ pc = "exit1" /\ ~out_created /\ out = <<>>
    /\ (ArgsAccepted /\ KeepKnown(SuppliedIds) = <<>>) =>
          /\ pc \in {"start", "engines", "exit1"}
          /\ ~out_created /\ out = <<>>

\* an unknown identifier was dropped with a warning and the output written
C7_Witness ==
    /\ pc = "done"
    /\ HasMsg("unknown_engine")
    /\ Len(SuppliedIds) > Len(EngineOpenIds)
    /\ EngineOpenIds # <<>>

\* the field name of one comma-separated entry of the key specification
EntryName(entry) ==
    LET e == trim(entry)
    IN  IF \E i \in 1..Len(e) : e[i] = ":"
        THEN trim(SubSeq(e, 1, find(e, ":") - 1))
        ELSE e

\* one of the fatal input conditions
FatalInput ==
    \/ ~HasOption(A_c) \/ ~HasOption(A_o)
    \/ SuppliedIds = <<>>
    \/ KeepKnown(SuppliedIds) = <<>>
    \/ ~env.CIX_PROFILES_DATA.some
    \/ \A i \in 1..Len(split(env.CIX_PROFILES_DATA.v, ",")) :
          EntryName(split(env.CIX_PROFILES_DATA.v, ",")[i]) = <<>>
    \/ ~env.CIX_PROFILES.some

\* C6: on a fatal input condition the run never leaves the validation stages
\* other than by a non-zero exit, and the output is never created or written; the
\* output is created and written only once every profile file has been processed
C6_OutputAfterValidation ==
    /\ FatalInput =>
          /\ pc \in {"start", "engines", "keys", "limits", "profiles", "exit1", "panic"}
          /\ ~out_created /\ out = <<>>
    /\ (out_created \/ out # <<>>) =>
          /\ ~FatalInput
          /\ pidx = Len(split_whitespace(env.CIX_PROFILES.v)) + 1
    /\ out # <<>> => out_created

\* the last input check failed after the registry and the key specs were built
C6_Witness ==
    /\ pc = "exit1"
    /\ ~env.CIX_PROFILES.some
    /\ engines # <<>> /\ key_specs # <<>>
    /\ ~out_created

(***************************************************************************)
(* Claims about the emitted artifact, under SpecEmit. A complete artifact  *)
(* is the output at pc = "done".                                           *)
(***************************************************************************)
RECURSIVE AllProfilesOf(_)
\* the profiles of all engines, in the order they are written
AllProfilesOf(engs) ==
    IF engs = <<>> THEN <<>> ELSE Head(engs).profiles \o AllProfilesOf(Tail(engs))

AllProfiles == AllProfilesOf(engines)

Positions(kind) == {j \in 1..Len(out) : out[j].k = kind}

\* the n-th position of a set of positions
NthOf(S, n) == CHOOSE j \in S : Cardinality({i \in S : i <= j}) = n

\* the "param" writes of the n-th profile of the output, in order
EmittedParams(n) ==
    LET from == NthOf(Positions("profile_open"), n)
        to == NthOf(Positions("profile_close"), n)
        IsParam(r) == r.k = "param"
    IN  SelectSeq(SubSeq(out, from + 1, to - 1), IsParam)

\* the written names and values with the added backslashes removed
RawParams(n) ==
    [i \in 1..Len(EmittedParams(n)) |->
        [key |-> Unescape(EmittedParams(n)[i].a), value |-> Unescape(EmittedParams(n)[i].b)]]

RECURSIVE ValuesFor(_, _)
ValuesFor(params, name) ==
    IF params = <<>> THEN <<>>
    ELSE (IF Head(params).key = name THEN <<Head(params).value>> ELSE <<>>)
         \o ValuesFor(Tail(params), name)

\* per KeySpec naming `name`, in specification order: the profile's value, through
\* human_to_bytes exactly when that KeySpec has convert_to_bytes
RECURSIVE SpecValues(_, _, _)
SpecValues(specs, profile, name) ==
    IF specs = <<>> THEN <<>>
    ELSE (IF Head(specs).name = name
          THEN <<IF Head(specs).convert_to_bytes
                 THEN human_to_bytes(profile[name], overflow_checks).val
                 ELSE profile[name]>>
          ELSE <<>>) \o SpecValues(Tail(specs), profile, name)

SpecNames == {key_specs[i].name : i \in 1..Len(key_specs)}

ProfilesComplete ==
    /\ Cardinality(Positions("profile_open")) = Len(AllProfiles)
    /\ Cardinality(Positions("profile_close")) = Len(AllProfiles)

\* C5: in every emitted profile the fields are exactly the KeySpec names the
\* profile's mapping holds, in lexicographic order of the names, each value
\* through human_to_bytes exactly when its KeySpec has convert_to_bytes
C5_FieldsPresentSortedConverted ==
    pc = "done" =>
        /\ ProfilesComplete
        /\ \A n \in 1..Len(AllProfiles) :
              LET raw == RawParams(n)
              IN  /\ {raw[i].key : i \in 1..Len(raw)} = SpecNames \cap DOMAIN AllProfiles[n]
                  /\ \A i, j \in 1..Len(raw) : i < j => ~cmp_less(raw[j].key, raw[i].key)
                  /\ \A name \in SpecNames \cap DOMAIN AllProfiles[n] :
                        ValuesFor(raw, name) = SpecValues(key_specs, AllProfiles[n], name)

\* a profile written from the key specification b, a", a: the absent b left out,
\* a before a", and the value of a" converted
C5_Witness ==
    /\ pc = "done"
    /\ Len(key_specs) = 3 /\ key_specs[1].name = <<"b">>
    /\ \E n \in 1..Len(AllProfiles) :
          /\ Len(RawParams(n)) = 2
          /\ RawParams(n)[1].key = <<"a">>
          /\ RawParams(n)[2] = [key |-> <<"a", DQ>>,
                                value |-> <<"3", "1", "4", "5", "7", "2", "8">>]

\* C10 as stated: within one emitted profile no field name is written twice
C10_Original ==
    pc = "done" =>
        \A n \in 1..Len(AllProfiles) :
            \A i, j \in 1..Len(EmittedParams(n)) :
                i # j => EmittedParams(n)[i].a # EmittedParams(n)[j].a

\* C10 amended: within one emitted profile a field name the profile holds is
\* written once per KeySpec that names it, so a name the key specification
\* repeats is written as many times as it is repeated, in adjacent entries
C10_OneEntryPerKeySpec ==
    pc = "done" =>
        /\ ProfilesComplete
        /\ \A n \in 1..Len(AllProfiles) :
              LET raw == RawParams(n)
              IN  /\ \A name \in DOMAIN AllProfiles[n] :
                        Cardinality({i \in 1..Len(raw) : raw[i].key = name})
                            = Cardinality({i \in 1..Len(key_specs) : key_specs[i].name = name})
                  /\ \A i, j \in 1..Len(raw) :
                        (i < j /\ raw[i].key = raw[j].key) => raw[i + 1].key = raw[i].key

\* a profile written under a key specification that names one field twice
C10_Witness ==
    /\ pc = "done"
    /\ \E i, j \in 1..Len(key_specs) : i # j /\ key_specs[i].name = key_specs[j].name
    /\ \E n \in 1..Len(AllProfiles) :
          \E i \in 1..(Len(EmittedParams(n)) - 1) :
              EmittedParams(n)[i].a = EmittedParams(n)[i + 1].a

NextKind(j) == IF j < Len(out) THEN out[j + 1].k ELSE "eof"

\* the comma rule at the engine list, the profile list and the field list: an
\* element is followed by a comma exactly when another element follows it
CommaRuleOfLists ==
    /\ Cardinality(Positions("engine_close")) = Len(engines)
    /\ ProfilesComplete
    /\ \A j \in 1..Len(out) :
          /\ out[j].k = "engine_close" =>
                /\ NextKind(j) \in {"engine_open", "engines_close"}
                /\ out[j].comma <=> NextKind(j) = "engine_open"
          /\ out[j].k = "profile_close" =>
                /\ NextKind(j) \in {"profile_open", "data_close"}
                /\ out[j].comma <=> NextKind(j) = "profile_open"
          /\ out[j].k = "param" =>
                /\ ~out[j].comma
                /\ NextKind(j) \in {"sep", "profile_close"}
          /\ out[j].k = "sep" =>
                /\ NextKind(j) = "param"
                /\ j > 1 /\ out[j - 1].k = "param"
          /\ out[j].k = "field" => out[j].comma /\ NextKind(j) # "engine_close"

\* the writes that end the data field, the last named field of an engine entry
DataEnds == {j \in 1..Len(out) : out[j].k \in {"data_empty", "data_close"}}

\* C4 as stated: the rule holds at every level, the data field of an engine entry
\* included
C4_Original ==
    pc = "done" =>
        /\ CommaRuleOfLists
        /\ \A j \in DataEnds : NextKind(j) = "engine_close" /\ ~out[j].comma

\* C4 amended: the rule holds for the last engine of the engine list, the last
\* profile of an engine's data and the last field of a profile, for every number
\* of engines, profiles and fields; the data field, the last named field of an
\* engine entry, is always written with a following comma
C4_CommaRuleButData ==
    pc = "done" =>
        /\ CommaRuleOfLists
        /\ Cardinality(DataEnds) = Len(engines)
        /\ \A j \in DataEnds : NextKind(j) = "engine_close" /\ out[j].comma

\* an artifact with an engine without profiles, an engine with two profiles and a
\* profile with two fields
C4_Witness ==
    /\ pc = "done"
    /\ Positions("data_empty") # {}
    /\ \E j \in Positions("profile_close") : out[j].comma
    /\ Positions("sep") # {}

(***************************************************************************)
(* The claim about php_escape, under SpecEsc.                              *)
(***************************************************************************)
\* the "field" writes of the n-th engine of the output, in order
EngineFields(n) ==
    LET from == NthOf(Positions("engine_open"), n)
        to == NthOf(Positions("engine_close"), n)
        IsField(r) == r.k = "field"
    IN  SelectSeq(SubSeq(out, from + 1, to - 1), IsField)

RECURSIVE PresentLimits(_)
PresentLimits(lims) ==
    IF lims = <<>> THEN <<>>
    ELSE (IF Head(lims).opt.some THEN <<Head(lims)>> ELSE <<>>) \o PresentLimits(Tail(lims))

\* C8: php_escape(s) is s with each backslash and each double quote preceded by
\* one added backslash and nothing else changed, so removing the added
\* backslashes recovers s; and every engine name, description, prefix, limit
\* value, field name and field value is written as php_escape returns it
C8_EscapeEachOnce ==
    /\ epc = "ret" =>
          /\ esc_out = EscapeEach(esc_in)
          /\ Unescape(esc_out) = esc_in
    /\ pc = "done" =>
          /\ Cardinality(Positions("engine_open")) = Len(engines)
          /\ \A n \in 1..Len(engines) :
                LET f == EngineFields(n)
                    lims == PresentLimits(limits)
                IN  /\ Len(f) = 4 + Len(lims)
                    /\ f[1].b = EscapeEach(get_engine_metadata(engines[n].id).name)
                    /\ f[2].b = EscapeEach(get_engine_metadata(engines[n].id).description)
                    /\ f[3].b = EscapeEach(get_engine_metadata(engines[n].id).prefix)
                    /\ \A i \in 1..Len(lims) :
                          f[4 + i].a = lims[i].name /\ f[4 + i].b = EscapeEach(lims[i].opt.v)
          /\ \A n \in 1..Len(AllProfiles) :
                LET sorted == sort_by_name(
                        profile_params(AllProfiles[n], key_specs, overflow_checks).params)
                IN  /\ Len(EmittedParams(n)) = Len(sorted)
                    /\ \A i \in 1..Len(sorted) :
                          /\ EmittedParams(n)[i].a = EscapeEach(sorted[i].key)
                          /\ EmittedParams(n)[i].b = EscapeEach(sorted[i].value)

\* php_escape returned on a string holding a double quote and a backslash
C8_Witness ==
    /\ epc = "ret"
    /\ \E i, j \in 1..Len(esc_in) : esc_in[i] = DQ /\ esc_in[j] = BSL

====
